---- MODULE Spec2Model ----
(***************************************************************************)
(* VisionTalk: the conversation state controller of src/App.tsx and the    *)
(* two remote calls of src/services/gemini.ts it sequences.                *)
(*                                                                         *)
(* The component state (useState / useRef cells) is the model state.  Each *)
(* event handler is one action.  The async handler handleSend is split at  *)
(* its two awaits: the part up to the first await runs in the submitting   *)
(* event, the continuation after describeImage settles is one action, the  *)
(* continuation after generateSpeech settles is another, and the playback  *)
(* end callback a fourth.  A handler instance keeps what its closure       *)
(* captured when it was called in its entry of turns, together with the    *)
(* request it has in flight.                                               *)
(***************************************************************************)
EXTENDS Integers, Sequences, FiniteSets, TLC

\* ---- bounds of the model ------------------------------------------------
MaxTurns == 2        \* accepted submissions per behaviour
MaxUploads == 1      \* file selections per behaviour
MaxRecordings == 1   \* presses of the hold-to-speak control per behaviour
MaxExportLen == 3    \* length of the conversations the export is applied to on its own

\* ---- values ---------------------------------------------------------------
NoImage == "null"                                  \* useState<string | null>(null)
Files == {"f1"}                                    \* files the user can pick
EarlierFile == "f0"                                \* a file picked before the behaviour starts
Texts == {"hi"}                                    \* non-empty texts the user can type
Replies == {"hello"}                               \* non-empty texts the model can return
Languages == {"English", "Spanish"}

DefaultUserText == "Analyze this image"
DefaultPrompt == "What do you see in this image?"
FallbackText == "I couldn't analyze the image."
ErrorText == "Sorry, I encountered an error processing your request."

\* reader.readAsDataURL(file): the data URL of the file's bytes
DataUrl(f) == "data:image/jpeg;base64," \o f

VARIABLES
  messages,          \* useState<Message[]>
  input,             \* useState('')
  image,             \* useState<string | null>
  isRecording,       \* useState(false)
  isLoading,         \* useState(false)
  isTtsEnabled,      \* useState(true)
  selectedLanguage,  \* useState('English')
  status,            \* useState<'idle' | 'analyzing' | 'speaking'>
  turns,             \* the handleSend invocations that got past the guard, in call order
  audios,            \* turns whose Audio element is playing (onended not yet fired)
  readers,           \* FileReaders whose onloadend has not fired yet
  uploads,           \* number of file selections so far
  micRequests,       \* pending getUserMedia promises
  recorders,         \* the MediaRecorders created so far
  mediaRecorderRef,  \* index into recorders, 0 for null
  presses,           \* number of mouse-downs on the hold-to-speak control so far
  held,              \* the hold-to-speak control is pressed (mouse down, no up or leave yet)
  lastOp,            \* which handler ran last: handleSend, clearChat or another one
  download           \* the file the last handler handed to the browser, NoFile when none

vars == <<messages, input, image, isRecording, isLoading, isTtsEnabled,
          selectedLanguage, status, turns, audios, readers, uploads,
          micRequests, recorders, mediaRecorderRef, presses, held, lastOp, download>>

chatVars == <<messages, input, image, isLoading, isTtsEnabled,
              selectedLanguage, status, turns, audios>>
fileVars == <<readers, uploads>>
recVars == <<isRecording, micRequests, recorders, mediaRecorderRef, presses, held>>

NoFile == "none"

\* interface Message { role, text, image? }
UserMessage(text, img) == [role |-> "user", text |-> text, image |-> img]
ModelMessage(text) == [role |-> "model", text |-> text, image |-> NoImage]

Init ==
  /\ messages = <<>>
  /\ input = ""
  /\ image = NoImage
  /\ isRecording = FALSE
  /\ isLoading = FALSE
  /\ isTtsEnabled = TRUE
  /\ selectedLanguage = "English"
  /\ status = "idle"
  /\ turns = <<>>
  /\ audios = {}
  /\ readers = {}
  /\ uploads = 0
  /\ micRequests = 0
  /\ recorders = <<>>
  /\ mediaRecorderRef = 0
  /\ presses = 0
  /\ held = FALSE
  /\ lastOp = "init"
  /\ download = NoFile

\* ---- services/gemini.ts ---------------------------------------------------

\* historyParts = history.map(m => ({ role: m.role, parts: [{ text: m.text }] }))
HistoryParts(history) ==
  [i \in 1..Len(history) |-> [role |-> history[i].role, parts |-> <<[text |-> history[i].text]>>]]

\* base64Image.split(",")[1]: what follows the comma of the data URL
AfterComma(base64Image) ==
  CHOOSE f \in Files \cup {EarlierFile} : DataUrl(f) = base64Image

\* imagePart = base64Image ? { inlineData: { mimeType, data } } : null
ImagePart(base64Image) ==
  [inlineData |-> [mimeType |-> "image/jpeg", data |-> AfterComma(base64Image)]]

\* parts = []; if (imagePart) parts.push(imagePart); parts.push({ text: prompt })
CurrentParts(base64Image, prompt) ==
  (IF base64Image # "" THEN <<ImagePart(base64Image)>> ELSE <<>>) \o <<[text |-> prompt]>>

\* contents: [...historyParts, { parts }]
Contents(base64Image, prompt, history) ==
  HistoryParts(history) \o <<[role |-> "none", parts |-> CurrentParts(base64Image, prompt)]>>

\* describeImage up to its await: the generateContent request it sends
describeImage(base64Image, prompt, history, language) ==
  [image |-> base64Image,
   history |-> history,
   language |-> language,
   contents |-> Contents(base64Image, prompt, history)]

\* generateSpeech up to its await: the generateContent request it sends
generateSpeech(text) == [text |-> text]

NoRequest == [none |-> TRUE]

\* ---- handleSend -----------------------------------------------------------

\* handleSend without its early return for an empty submission
handleSend_NoGuard ==
  /\ Len(turns) < MaxTurns
  /\ messages' = Append(messages,
                   UserMessage(IF input # "" THEN input ELSE DefaultUserText, image))
  /\ input' = ""
  /\ isLoading' = TRUE
  /\ status' = "analyzing"
  /\ turns' = Append(turns,
       [pc |-> "describeImage",
        text |-> input,
        tts |-> isTtsEnabled,
        request |-> describeImage(IF image # NoImage THEN image ELSE "",
                                  IF input # "" THEN input ELSE DefaultPrompt,
                                  messages, selectedLanguage),
        outcome |-> "pending",
        speechCalls |-> 0,
        appended |-> <<"user">>])
  /\ UNCHANGED <<image, isTtsEnabled, selectedLanguage, audios>>

\* handleSend passing the conversation with the new user Message as the history
handleSend_HistoryWithCurrent ==
  LET userMsg == UserMessage(IF input # "" THEN input ELSE DefaultUserText, image) IN
  IF input = "" /\ image = NoImage
  THEN UNCHANGED chatVars
  ELSE
    /\ Len(turns) < MaxTurns
    /\ messages' = Append(messages, userMsg)
    /\ input' = ""
    /\ isLoading' = TRUE
    /\ status' = "analyzing"
    /\ turns' = Append(turns,
         [pc |-> "describeImage",
          text |-> input,
          tts |-> isTtsEnabled,
          request |-> describeImage(IF image # NoImage THEN image ELSE "",
                                    IF input # "" THEN input ELSE DefaultPrompt,
                                    Append(messages, userMsg), selectedLanguage),
          outcome |-> "pending",
          speechCalls |-> 0,
          appended |-> <<"user">>])
    /\ UNCHANGED <<image, isTtsEnabled, selectedLanguage, audios>>

\* the part of handleSend that runs in the submitting event, up to the first await
handleSend ==
  LET text == input IN
  IF text = "" /\ image = NoImage
  THEN UNCHANGED chatVars
  ELSE
    /\ Len(turns) < MaxTurns
    /\ messages' = Append(messages,
                     UserMessage(IF text # "" THEN text ELSE DefaultUserText, image))
    /\ input' = ""
    /\ isLoading' = TRUE
    /\ status' = "analyzing"
    /\ turns' = Append(turns,
         [pc |-> "describeImage",
          text |-> text,
          tts |-> isTtsEnabled,
          request |-> describeImage(IF image # NoImage THEN image ELSE "",
                                    IF text # "" THEN text ELSE DefaultPrompt,
                                    messages, selectedLanguage),
          outcome |-> "pending",
          speechCalls |-> 0,
          appended |-> <<"user">>])
    /\ UNCHANGED <<image, isTtsEnabled, selectedLanguage, audios>>

\* <button onClick={() => handleSend()} disabled={isLoading || (!input && !image)}>
SendClick ==
  /\ ~(isLoading \/ (input = "" /\ image = NoImage))
  /\ handleSend
  /\ lastOp' = "handleSend"
  /\ download' = NoFile
  /\ UNCHANGED <<fileVars, recVars>>

\* onKeyDown={(e) => e.key === 'Enter' && handleSend()}
SendEnter ==
  /\ handleSend
  /\ lastOp' = "handleSend"
  /\ download' = NoFile
  /\ UNCHANGED <<fileVars, recVars>>

\* ---- continuations of handleSend ------------------------------------------

Pending(pcs) == {t \in 1..Len(turns) : turns[t].pc \in pcs}

\* the continuation reading the speech toggle as it is now, not as the call captured it
describeResolved_LiveTts(t, txt) ==
  LET responseText == IF txt # "" THEN txt ELSE FallbackText IN
  /\ turns[t].pc = "describeImage"
  /\ messages' = Append(messages, ModelMessage(responseText))
  /\ IF isTtsEnabled
     THEN /\ status' = "speaking"
          /\ turns' = [turns EXCEPT ![t].pc = "generateSpeech",
                                    ![t].request = generateSpeech(responseText),
                                    ![t].outcome = "described",
                                    ![t].speechCalls = @ + 1,
                                    ![t].appended = Append(@, "model")]
          /\ UNCHANGED isLoading
     ELSE /\ status' = "idle"
          /\ isLoading' = FALSE
          /\ turns' = [turns EXCEPT ![t].pc = "done",
                                    ![t].request = NoRequest,
                                    ![t].outcome = "described",
                                    ![t].appended = Append(@, "model")]
  /\ UNCHANGED <<input, image, isTtsEnabled, selectedLanguage, audios>>

\* the continuation writing the reply with setMessages([...messages, userMsg, modelMsg]),
\* on the messages its closure captured, in place of the functional update
describeResolved_StaleMessages(t, txt) ==
  LET responseText == IF txt # "" THEN txt ELSE FallbackText
      me == turns[t]
      userMsg == UserMessage(IF me.text # "" THEN me.text ELSE DefaultUserText,
                             IF me.request.image # "" THEN me.request.image ELSE NoImage) IN
  /\ me.pc = "describeImage"
  /\ messages' = Append(Append(me.request.history, userMsg), ModelMessage(responseText))
  /\ IF me.tts
     THEN /\ status' = "speaking"
          /\ turns' = [turns EXCEPT ![t].pc = "generateSpeech",
                                    ![t].request = generateSpeech(responseText),
                                    ![t].outcome = "described",
                                    ![t].speechCalls = @ + 1,
                                    ![t].appended = Append(@, "model")]
          /\ UNCHANGED isLoading
     ELSE /\ status' = "idle"
          /\ isLoading' = FALSE
          /\ turns' = [turns EXCEPT ![t].pc = "done",
                                    ![t].request = NoRequest,
                                    ![t].outcome = "described",
                                    ![t].appended = Append(@, "model")]
  /\ UNCHANGED <<input, image, isTtsEnabled, selectedLanguage, audios>>

\* the continuation taking an empty response.text for a failure of the call
describeResolved_EmptyIsError(t, txt) ==
  LET me == turns[t] IN
  /\ me.pc = "describeImage"
  /\ messages' = Append(messages, ModelMessage(IF txt # "" THEN txt ELSE ErrorText))
  /\ IF me.tts /\ txt # ""
     THEN /\ status' = "speaking"
          /\ turns' = [turns EXCEPT ![t].pc = "generateSpeech",
                                    ![t].request = generateSpeech(txt),
                                    ![t].outcome = "described",
                                    ![t].speechCalls = @ + 1,
                                    ![t].appended = Append(@, "model")]
          /\ UNCHANGED isLoading
     ELSE /\ status' = "idle"
          /\ isLoading' = FALSE
          /\ turns' = [turns EXCEPT ![t].pc = "done",
                                    ![t].request = NoRequest,
                                    ![t].outcome = IF txt # "" THEN "described" ELSE "fallback",
                                    ![t].appended = Append(@, "model")]
  /\ UNCHANGED <<input, image, isTtsEnabled, selectedLanguage, audios>>

\* describeImage(...) resolved with response.text = txt ("" for an empty or absent text):
\* lines 99-116, then finally
describeResolved(t, txt) ==
  LET responseText == IF txt # "" THEN txt ELSE FallbackText
      me == turns[t] IN
  /\ me.pc = "describeImage"
  /\ messages' = Append(messages, ModelMessage(responseText))
  /\ IF me.tts
     THEN /\ status' = "speaking"
          /\ turns' = [turns EXCEPT ![t].pc = "generateSpeech",
                                    ![t].request = generateSpeech(responseText),
                                    ![t].outcome = IF txt # "" THEN "described" ELSE "fallback",
                                    ![t].speechCalls = @ + 1,
                                    ![t].appended = Append(@, "model")]
          /\ UNCHANGED isLoading
     ELSE /\ status' = "idle"
          /\ isLoading' = FALSE
          /\ turns' = [turns EXCEPT ![t].pc = "done",
                                    ![t].request = NoRequest,
                                    ![t].outcome = IF txt # "" THEN "described" ELSE "fallback",
                                    ![t].appended = Append(@, "model")]
  /\ UNCHANGED <<input, image, isTtsEnabled, selectedLanguage, audios>>

\* the catch branch without the finally block's setIsLoading(false)
describeRejected_NoFinally(t) ==
  /\ turns[t].pc = "describeImage"
  /\ messages' = Append(messages, ModelMessage(ErrorText))
  /\ status' = "idle"
  /\ turns' = [turns EXCEPT ![t].pc = "done",
                            ![t].request = NoRequest,
                            ![t].outcome = "describeFailed",
                            ![t].appended = Append(@, "model")]
  /\ UNCHANGED <<input, image, isLoading, isTtsEnabled, selectedLanguage, audios>>

\* describeImage(...) rejected: catch (lines 117-120), then finally
describeRejected(t) ==
  /\ turns[t].pc = "describeImage"
  /\ messages' = Append(messages, ModelMessage(ErrorText))
  /\ status' = "idle"
  /\ isLoading' = FALSE
  /\ turns' = [turns EXCEPT ![t].pc = "done",
                            ![t].request = NoRequest,
                            ![t].outcome = "describeFailed",
                            ![t].appended = Append(@, "model")]
  /\ UNCHANGED <<input, image, isTtsEnabled, selectedLanguage, audios>>

\* the speech continuation without the else branch's setStatus('idle')
speechResolved_NoIdle(t, audioData) ==
  /\ turns[t].pc = "generateSpeech"
  /\ IF audioData
     THEN audios' = audios \cup {t}
     ELSE UNCHANGED audios
  /\ UNCHANGED status
  /\ isLoading' = FALSE
  /\ turns' = [turns EXCEPT ![t].pc = "done",
                            ![t].request = NoRequest,
                            ![t].outcome = IF audioData THEN "played" ELSE "noAudio"]
  /\ UNCHANGED <<messages, input, image, isTtsEnabled, selectedLanguage>>

\* generateSpeech(responseText) resolved, with or without audio data:
\* lines 107-113, then finally
speechResolved(t, audioData) ==
  /\ turns[t].pc = "generateSpeech"
  /\ IF audioData
     THEN /\ audios' = audios \cup {t}
          /\ UNCHANGED status
     ELSE /\ status' = "idle"
          /\ UNCHANGED audios
  /\ isLoading' = FALSE
  /\ turns' = [turns EXCEPT ![t].pc = "done",
                            ![t].request = NoRequest,
                            ![t].outcome = IF audioData THEN "played" ELSE "noAudio"]
  /\ UNCHANGED <<messages, input, image, isTtsEnabled, selectedLanguage>>

\* generateSpeech(responseText) rejected: catch (lines 117-120), then finally
speechRejected(t) ==
  /\ turns[t].pc = "generateSpeech"
  /\ messages' = Append(messages, ModelMessage(ErrorText))
  /\ status' = "idle"
  /\ isLoading' = FALSE
  /\ turns' = [turns EXCEPT ![t].pc = "done",
                            ![t].request = NoRequest,
                            ![t].outcome = "speechFailed",
                            ![t].appended = Append(@, "model")]
  /\ UNCHANGED <<input, image, isTtsEnabled, selectedLanguage, audios>>

\* audio.onended = () => setStatus('idle')
audioEnded(t) ==
  /\ t \in audios
  /\ audios' = audios \ {t}
  /\ status' = "idle"
  /\ UNCHANGED <<messages, input, image, isLoading, isTtsEnabled, selectedLanguage, turns>>

DescribeResolved ==
  /\ \E t \in Pending({"describeImage"}) : \E txt \in Replies \cup {""} : describeResolved(t, txt)
  /\ lastOp' = "other"
  /\ download' = NoFile
  /\ UNCHANGED <<fileVars, recVars>>

DescribeRejected ==
  /\ \E t \in Pending({"describeImage"}) : describeRejected(t)
  /\ lastOp' = "other"
  /\ download' = NoFile
  /\ UNCHANGED <<fileVars, recVars>>

SpeechResolved ==
  /\ \E t \in Pending({"generateSpeech"}) : \E audioData \in BOOLEAN : speechResolved(t, audioData)
  /\ lastOp' = "other"
  /\ download' = NoFile
  /\ UNCHANGED <<fileVars, recVars>>

SpeechRejected ==
  /\ \E t \in Pending({"generateSpeech"}) : speechRejected(t)
  /\ lastOp' = "other"
  /\ download' = NoFile
  /\ UNCHANGED <<fileVars, recVars>>

AudioEnded ==
  /\ \E t \in audios : audioEnded(t)
  /\ lastOp' = "other"
  /\ download' = NoFile
  /\ UNCHANGED <<fileVars, recVars>>

\* ---- the other handlers ---------------------------------------------------

\* clearChat without setImage(null)
clearChat_KeepsImage ==
  /\ messages' = <<>>
  /\ status' = "idle"
  /\ UNCHANGED <<input, image, isLoading, isTtsEnabled, selectedLanguage, turns, audios>>

\* const clearChat = () => { setMessages([]); setImage(null); setStatus('idle'); }
clearChat ==
  /\ messages' = <<>>
  /\ image' = NoImage
  /\ status' = "idle"
  /\ UNCHANGED <<input, isLoading, isTtsEnabled, selectedLanguage, turns, audios>>

ClearChat ==
  /\ clearChat
  /\ lastOp' = "clearChat"
  /\ download' = NoFile
  /\ UNCHANGED <<fileVars, recVars>>

\* onChange={(e) => setInput(e.target.value)}
SetInput ==
  /\ \E v \in Texts \cup {""} : input' = v
  /\ input' # input
  /\ lastOp' = "other"
  /\ download' = NoFile
  /\ UNCHANGED <<messages, image, isLoading, isTtsEnabled, selectedLanguage, status,
                 turns, audios, fileVars, recVars>>

\* onClick={() => setIsTtsEnabled(!isTtsEnabled)}
ToggleTts ==
  /\ isTtsEnabled' = ~isTtsEnabled
  /\ lastOp' = "other"
  /\ download' = NoFile
  /\ UNCHANGED <<messages, input, image, isLoading, selectedLanguage, status,
                 turns, audios, fileVars, recVars>>

\* onChange={(e) => setSelectedLanguage(e.target.value)}
SetSelectedLanguage ==
  /\ \E l \in Languages : selectedLanguage' = l
  /\ selectedLanguage' # selectedLanguage
  /\ lastOp' = "other"
  /\ download' = NoFile
  /\ UNCHANGED <<messages, input, image, isLoading, isTtsEnabled, status,
                 turns, audios, fileVars, recVars>>

\* handleImageUpload: a FileReader is started on the selected file
handleImageUpload ==
  /\ uploads < MaxUploads
  /\ \E f \in Files : readers' = readers \cup {[file |-> f, seq |-> uploads + 1]}
  /\ uploads' = uploads + 1
  /\ lastOp' = "other"
  /\ download' = NoFile
  /\ UNCHANGED <<chatVars, recVars>>

\* reader.onloadend = () => { setImage(reader.result as string); }
readerLoadEnd ==
  /\ \E r \in readers :
       /\ image' = DataUrl(r.file)
       /\ readers' = readers \ {r}
  /\ lastOp' = "other"
  /\ download' = NoFile
  /\ UNCHANGED <<messages, input, isLoading, isTtsEnabled, selectedLanguage, status,
                 turns, audios, uploads, recVars>>

\* the thumbnail's remove button: shown when image && messages.length === 0,
\* onClick={() => setImage(null)}
RemoveImage ==
  /\ image # NoImage
  /\ messages = <<>>
  /\ image' = NoImage
  /\ lastOp' = "other"
  /\ download' = NoFile
  /\ UNCHANGED <<messages, input, isLoading, isTtsEnabled, selectedLanguage, status,
                 turns, audios, fileVars, recVars>>

\* ---- export ---------------------------------------------------------------

\* the role written as it is stored
ToUpperCase_AsIs(role) == role

\* m.role.toUpperCase()
ToUpperCase(role) == IF role = "user" THEN "USER" ELSE IF role = "model" THEN "MODEL" ELSE role

RECURSIVE Join(_, _)
\* Array.prototype.join
Join(lines, sep) ==
  IF lines = <<>> THEN ""
  ELSE IF Len(lines) = 1 THEN lines[1]
  ELSE lines[1] \o sep \o Join(Tail(lines), sep)

\* messages.map(m => `${m.role.toUpperCase()}: ${m.text}`).join('\n\n')
TranscriptOf(msgs) ==
  Join([i \in 1..Len(msgs) |-> ToUpperCase(msgs[i].role) \o ": " \o msgs[i].text], "\n\n")

\* <button onClick={downloadConversation} disabled={messages.length === 0}>:
\* a.click() on a Blob of the content; no component state is written
downloadConversation ==
  /\ messages # <<>>
  /\ download' = TranscriptOf(messages)
  /\ lastOp' = "other"
  /\ UNCHANGED <<chatVars, fileVars, recVars>>

\* ---- recording ------------------------------------------------------------

\* onMouseDown={startRecording}: up to the await of getUserMedia
startRecording ==
  /\ presses < MaxRecordings
  /\ presses' = presses + 1
  /\ held' = TRUE
  /\ micRequests' = micRequests + 1
  /\ lastOp' = "other"
  /\ download' = NoFile
  /\ UNCHANGED <<chatVars, fileVars, isRecording, recorders, mediaRecorderRef>>

\* getUserMedia resolved: lines 129-147
micGranted ==
  /\ micRequests > 0
  /\ micRequests' = micRequests - 1
  /\ recorders' = Append(recorders, [state |-> "recording", stopQueued |-> FALSE])
  /\ mediaRecorderRef' = Len(recorders) + 1
  /\ isRecording' = TRUE
  /\ lastOp' = "other"
  /\ download' = NoFile
  /\ UNCHANGED <<chatVars, fileVars, presses, held>>

\* getUserMedia rejected: catch, console.error only
micDenied ==
  /\ micRequests > 0
  /\ micRequests' = micRequests - 1
  /\ lastOp' = "other"
  /\ download' = NoFile
  /\ UNCHANGED <<chatVars, fileVars, isRecording, recorders, mediaRecorderRef, presses, held>>

\* onMouseUp / onMouseLeave: if (mediaRecorderRef.current) mediaRecorderRef.current.stop()
\* stop() on a recorder that is already inactive changes nothing
stopRecording ==
  /\ IF mediaRecorderRef # 0 /\ recorders[mediaRecorderRef].state = "recording"
     THEN recorders' = [recorders EXCEPT ![mediaRecorderRef] =
                          [state |-> "inactive", stopQueued |-> TRUE]]
     ELSE UNCHANGED recorders
  /\ held' = FALSE
  /\ lastOp' = "other"
  /\ download' = NoFile
  /\ UNCHANGED <<chatVars, fileVars, isRecording, micRequests, mediaRecorderRef, presses>>

\* mediaRecorder.onstop = async () => { ...; setIsRecording(false); }
recorderStopped ==
  /\ \E i \in 1..Len(recorders) :
       /\ recorders[i].stopQueued
       /\ recorders' = [recorders EXCEPT ![i].stopQueued = FALSE]
  /\ isRecording' = FALSE
  /\ lastOp' = "other"
  /\ download' = NoFile
  /\ UNCHANGED <<chatVars, fileVars, micRequests, mediaRecorderRef, presses, held>>

\* ---- specifications -------------------------------------------------------

\* the send flow of one handleSend call and its callbacks
TurnNext ==
  \/ SendClick
  \/ SendEnter
  \/ DescribeResolved
  \/ DescribeRejected
  \/ SpeechResolved
  \/ SpeechRejected
  \/ AudioEnded

\* the conversation of a user who types, toggles speech and clears
Next ==
  \/ TurnNext
  \/ SetInput
  \/ ToggleTts
  \/ ClearChat

Spec == Init /\ [][Next]_vars

\* the conversation of a user who attaches images, sends them and clears
AttachNext ==
  \/ TurnNext
  \/ ClearChat
  \/ handleImageUpload
  \/ readerLoadEnd
  \/ RemoveImage

AttachSpec == Init /\ [][AttachNext]_vars

\* the conversation of a user who types, attaches images, picks a language and clears
PromptNext ==
  \/ TurnNext
  \/ SetInput
  \/ SetSelectedLanguage
  \/ handleImageUpload
  \/ readerLoadEnd
  \/ ClearChat

PromptSpec == Init /\ [][PromptNext]_vars

\* the same user, met while the read of a file selected earlier is still pending
UploadInit ==
  /\ messages = <<>>
  /\ input = ""
  /\ image = NoImage
  /\ isRecording = FALSE
  /\ isLoading = FALSE
  /\ isTtsEnabled = TRUE
  /\ selectedLanguage = "English"
  /\ status = "idle"
  /\ turns = <<>>
  /\ audios = {}
  /\ readers = {[file |-> EarlierFile, seq |-> 0]}
  /\ uploads = 0
  /\ micRequests = 0
  /\ recorders = <<>>
  /\ mediaRecorderRef = 0
  /\ presses = 0
  /\ held = FALSE
  /\ lastOp = "other"
  /\ download = NoFile

UploadSpec == UploadInit /\ [][AttachNext]_vars

\* a user who converses and uses the hold-to-speak control
RecNext ==
  \/ Next
  \/ startRecording
  \/ micGranted
  \/ micDenied
  \/ stopRecording
  \/ recorderStopped

RecSpec == Init /\ [][RecNext]_vars

\* a user who converses, attaches and removes images, exports and records
AppNext ==
  \/ Next
  \/ handleImageUpload
  \/ readerLoadEnd
  \/ RemoveImage
  \/ downloadConversation
  \/ startRecording
  \/ micGranted
  \/ micDenied
  \/ stopRecording
  \/ recorderStopped

AppSpec == Init /\ [][AppNext]_vars

\* the Messages handleSend can append: user Messages with typed or default text,
\* with or without an image, and model Messages with a reply, the fallback or the error text
UserMessages ==
  {UserMessage(t, i) : t \in Texts, i \in {NoImage} \cup {DataUrl(f) : f \in Files}}
    \cup {UserMessage(DefaultUserText, DataUrl(f)) : f \in Files}
ModelMessages == {ModelMessage(t) : t \in Replies \cup {FallbackText, ErrorText}}

RECURSIVE Conversations(_)
\* the conversations of at most n Messages
Conversations(n) ==
  IF n = 0 THEN {<<>>}
  ELSE LET shorter == Conversations(n - 1) IN
       shorter \cup {Append(c, m) : c \in shorter, m \in UserMessages \cup ModelMessages}

\* the export applied to every conversation of at most MaxExportLen Messages
ExportInit ==
  /\ messages \in Conversations(MaxExportLen)
  /\ input = ""
  /\ image = NoImage
  /\ isRecording = FALSE
  /\ isLoading = FALSE
  /\ isTtsEnabled = TRUE
  /\ selectedLanguage = "English"
  /\ status = "idle"
  /\ turns = <<>>
  /\ audios = {}
  /\ readers = {}
  /\ uploads = 0
  /\ micRequests = 0
  /\ recorders = <<>>
  /\ mediaRecorderRef = 0
  /\ presses = 0
  /\ held = FALSE
  /\ lastOp = "init"
  /\ download = NoFile

ExportNext == downloadConversation

ExportSpec == ExportInit /\ [][ExportNext]_vars

\* the send flow when each remote call eventually resolves or rejects and each
\* started playback eventually ends
FairSpec ==
  /\ Init /\ [][TurnNext \/ SetInput \/ ToggleTts]_vars
  /\ WF_vars(DescribeResolved \/ DescribeRejected)
  /\ WF_vars(SpeechResolved \/ SpeechRejected)
  /\ WF_vars(AudioEnded)

\* ---- properties -----------------------------------------------------------

InFlight == Pending({"describeImage", "generateSpeech"})

Submitted == Len(turns') > Len(turns)

IsPrefix(s, t) == Len(s) <= Len(t) /\ \A i \in 1..Len(s) : s[i] = t[i]

\* C1: in every reachable state at most one remote request (describeImage or
\* generateSpeech) is in flight.
C1_OneRequestInFlight == Cardinality(InFlight) <= 1

\* C2: a submission is accepted (a user Message appended, a describeImage call
\* started) only when status is idle.
C2_SubmitOnlyWhenIdle == [][Submitted => status = "idle"]_vars

StatusTransitions ==
  {<<"idle", "analyzing">>, <<"analyzing", "speaking">>,
   <<"analyzing", "idle">>, <<"speaking", "idle">>}

\* C3: status changes only along idle->analyzing, analyzing->speaking,
\* analyzing->idle and speaking->idle.
C3_StatusTransitions ==
  [][status' # status => <<status, status'>> \in StatusTransitions]_vars

\* C4: a finished turn that was submitted with non-empty text and whose
\* describeImage call succeeded has appended exactly two messages, the user
\* Message and then one model Message, whatever the speech step did.
C4_TwoMessagesPerTurn ==
  \A t \in 1..Len(turns) :
    (turns[t].pc = "done" /\ turns[t].text # "" /\ turns[t].outcome # "describeFailed")
      => turns[t].appended = <<"user", "model">>

\* C5: the step in which a turn's describeImage call rejects appends exactly
\* the fixed error Message, finishes the handler without any generateSpeech
\* call, and leaves status idle and isLoading false; the turn has then
\* appended one model Message in all.
C5_DescribeFailure ==
  [][\A t \in 1..Len(turns) :
       (turns[t].pc = "describeImage" /\ turns'[t].outcome = "describeFailed")
         => /\ messages' = Append(messages, ModelMessage(ErrorText))
            /\ turns'[t].appended = <<"user", "model">>
            /\ turns'[t].speechCalls = 0
            /\ turns'[t].pc = "done"
            /\ status' = "idle"
            /\ isLoading' = FALSE]_vars

\* a describeImage call has failed while another turn was still in flight
C5_Witness ==
  \E t \in 1..Len(turns) :
    /\ turns[t].outcome = "describeFailed"
    /\ messages # <<>> /\ messages[Len(messages)] = ModelMessage(ErrorText)
    /\ status = "idle" /\ ~isLoading
    /\ InFlight # {}

\* C6: right after the clear action the conversation is empty, no image is
\* pending and status is idle, whatever the state before.
C6_ClearResets ==
  lastOp = "clearChat" => (messages = <<>> /\ image = NoImage /\ status = "idle")

\* clear ran while one turn was analyzing and another waiting for its speech
C6_Witness ==
  /\ lastOp = "clearChat"
  /\ Pending({"generateSpeech"}) # {}
  /\ Pending({"describeImage"}) # {}

\* C7: a turn submitted while speech output was disabled never calls
\* generateSpeech and never waits on it or plays audio, and the step that ends
\* its describeImage wait finishes the handler with status idle.
C7_NoSpeechWhenDisabled ==
  [][\A t \in 1..Len(turns') :
       ~turns'[t].tts =>
         /\ turns'[t].speechCalls = 0
         /\ turns'[t].pc # "generateSpeech"
         /\ t \notin audios'
         /\ (t <= Len(turns) /\ turns[t].pc = "describeImage" /\ turns'[t].pc # "describeImage")
              => (status' = "idle" /\ turns'[t].pc = "done")]_vars

\* a turn submitted with speech disabled got its reply after speech was enabled again
C7_Witness ==
  \E t \in 1..Len(turns) :
    /\ ~turns[t].tts
    /\ turns[t].outcome = "described"
    /\ turns[t].pc = "done"
    /\ isTtsEnabled
    /\ status = "idle"

\* C8: a submit with empty text and no pending image changes neither the
\* conversation, status, isLoading, the input text nor the pending image, and
\* starts no remote call.
C8_EmptySubmitNoOp ==
  [][(lastOp' = "handleSend" /\ input = "" /\ image = NoImage)
       => UNCHANGED <<messages, status, isLoading, input, image, turns, audios>>]_vars

\* handleSend ran on an empty submission: no turn was ever started
C8_Witness ==
  /\ lastOp = "handleSend"
  /\ input = "" /\ image = NoImage
  /\ turns = <<>> /\ messages = <<>>

\* C9: when every remote call settles and every playback ends, isLoading
\* eventually becomes false and status eventually becomes idle after every
\* submit.
C9_ReturnsToRest ==
  /\ isLoading ~> ~isLoading
  /\ (status # "idle") ~> (status = "idle")

\* the session is at rest after turns that ended with played audio, with no
\* audio and with a failed describeImage call
C9_Witness ==
  /\ status = "idle" /\ ~isLoading /\ InFlight = {} /\ audios = {}
  /\ \E t \in 1..Len(turns) : turns[t].outcome = "played"
  /\ \E t \in 1..Len(turns) : turns[t].outcome \in {"noAudio", "describeFailed"}

\* C10: every action other than clear leaves the previous conversation as a
\* prefix of the new one.
C10_AppendOnly ==
  [][lastOp' # "clearChat" => IsPrefix(messages, messages')]_vars

\* the replies of two overlapping turns were appended after both user Messages
C10_Witness ==
  /\ Len(messages) = 4
  /\ messages[1].role = "user" /\ messages[2].role = "user"
  /\ messages[3].role = "model" /\ messages[4].role = "model"
  /\ lastOp # "clearChat"
\* the role in capitals
RoleLabel(m) == CASE m.role = "user" -> "USER" [] m.role = "model" -> "MODEL"

RECURSIVE ExpectedTranscript(_, _)
\* the first n Messages, each as its role in capitals, ": " and its text, with a
\* blank line between one Message and the next
ExpectedTranscript(msgs, n) ==
  IF n = 0 THEN ""
  ELSE IF n = 1 THEN RoleLabel(msgs[1]) \o ": " \o msgs[1].text
  ELSE ExpectedTranscript(msgs, n - 1) \o "\n\n" \o RoleLabel(msgs[n]) \o ": " \o msgs[n].text

\* C11: the export hands out the Messages in conversation order, each as its
\* upper-cased role, ": " and its text, joined by a blank line, with no image or
\* audio data, and leaves the conversation and all other state unchanged.
C11_ExportTranscript ==
  [][download' # NoFile =>
       /\ download' = ExpectedTranscript(messages, Len(messages))
       /\ UNCHANGED <<chatVars, fileVars, recVars>>]_vars

\* the conversation [user "hi", model "hello"] was exported
C11_Witness ==
  /\ messages = <<UserMessage("hi", NoImage), ModelMessage("hello")>>
  /\ download = "USER: hi\n\nMODEL: hello"
\* C12: a submit that uses the pending image leaves no image pending.
C12_ImageConsumedBySend ==
  [][(Submitted /\ image # NoImage) => image' = NoImage]_vars

\* C13: the step in which a turn's describeImage call resolves with an empty
\* or absent text appends exactly one model Message, the fallback string and
\* no error Message, and with speech enabled calls generateSpeech on the
\* fallback string.
C13_EmptyReplyFallback ==
  [][\A t \in 1..Len(turns) :
       (turns[t].pc = "describeImage" /\ turns'[t].outcome = "fallback")
         => /\ messages' = Append(messages, ModelMessage(FallbackText))
            /\ turns'[t].appended = <<"user", "model">>
            /\ IF turns[t].tts
               THEN /\ turns'[t].pc = "generateSpeech"
                    /\ turns'[t].request = generateSpeech(FallbackText)
                    /\ turns'[t].speechCalls = 1
                    /\ status' = "speaking"
               ELSE /\ turns'[t].pc = "done"
                    /\ turns'[t].speechCalls = 0
                    /\ status' = "idle"]_vars

\* an empty reply was answered with the fallback string and its speech is requested
C13_Witness ==
  \E t \in 1..Len(turns) :
    /\ turns[t].outcome = "fallback"
    /\ turns[t].pc = "generateSpeech"
    /\ turns[t].request = generateSpeech(FallbackText)
    /\ messages # <<>> /\ messages[Len(messages)] = ModelMessage(FallbackText)
\* C14: the history an accepted submit passes to describeImage is the
\* conversation as it stood before the turn's user Message was appended; the
\* request contents are those Messages in order, each as its role and its text,
\* followed by one entry for the current turn whose parts are the image, when
\* one is pending, and then the prompt text.
C14_RequestContents ==
  [][Submitted =>
       LET request == turns'[Len(turns')].request
           contents == request.contents
           current == contents[Len(contents)].parts
           prompt == IF input # "" THEN input ELSE DefaultPrompt
       IN /\ request.history = messages
          /\ Len(messages') = Len(messages) + 1
          /\ Len(contents) = Len(messages) + 1
          /\ \A i \in 1..Len(messages) :
               contents[i] = [role |-> messages[i].role,
                              parts |-> <<[text |-> messages[i].text]>>]
          /\ current[Len(current)] = [text |-> prompt]
          /\ IF image # NoImage
             THEN Len(current) = 2 /\ DOMAIN current[1] = {"inlineData"}
             ELSE Len(current) = 1]_vars

\* a turn with typed text and an image is analyzing with two earlier Messages as history
C14_Witness ==
  \E t \in 1..Len(turns) :
    /\ turns[t].pc = "describeImage"
    /\ turns[t].text # ""
    /\ turns[t].request.image # ""
    /\ Len(turns[t].request.history) = 2
    /\ Len(turns[t].request.contents) = 3
    /\ Len(messages) = 3
\* C15: when the last pending file read completes, the pending attachment
\* becomes the image of the file selected last (the selection numbered uploads),
\* in whatever order the reads complete.
C15_LastSelectedWins ==
  [][(readers # {} /\ readers' = {})
       => \E r \in readers : r.seq = uploads /\ image' = DataUrl(r.file)]_vars
\* C16: recording is active only while the control is held: once the control is
\* released and every pending callback has run (no getUserMedia promise and no
\* onstop event outstanding), isRecording is false and no recorder is recording.
C16_RecordsOnlyWhileHeld ==
  (~held /\ micRequests = 0 /\ \A i \in 1..Len(recorders) : ~recorders[i].stopQueued)
    => (~isRecording /\ \A i \in 1..Len(recorders) : recorders[i].state # "recording")
\* C17: the conversation is made of whole turns: roles alternate user, model,
\* user, model, ... starting with user (so at most the last Message is a user
\* Message awaiting its reply, and every model Message follows its user Message).
C17_WholeTurns ==
  \A i \in 1..Len(messages) :
    messages[i].role = IF i % 2 = 1 THEN "user" ELSE "model"

\* C18: whenever isLoading is true, status is analyzing or speaking, never idle.
C18_LoadingImpliesBusy ==
  isLoading => status \in {"analyzing", "speaking"}
====
